---- MODULE Spec2Model ----
(***************************************************************************)
(* Model of termulus' incremental escape-sequence parser (src/parser.rs)   *)
(* and of the terminal state it drives (src/terminal.rs).                  *)
(*                                                                         *)
(* Bytes are their ASCII codes.  A Cow<[u8]> is a record                   *)
(*   [owned, ptr, data]: a borrowed view keeps the address of its first    *)
(* byte (ptr) and the bytes it shows (data); an owned vector keeps only    *)
(* its bytes.  Addresses are small naturals; address 0 stands for the      *)
(* promoted static `&[]`, which lies below every heap buffer.              *)
(*                                                                         *)
(* A panic (panic!, unreachable!, a failed assert! or expect) ends the     *)
(* process: the call returns nothing and `aborted` names the reason.       *)
(* A panic while Terminal::read applies the events is in `read_aborted`.   *)
(*                                                                         *)
(* usize arithmetic that leaves the word panics in a build with overflow   *)
(* checks and wraps in one without; `overflow_checks` is the build, left   *)
(* "undetermined" until a read overflows and the build shows.              *)
(***************************************************************************)
EXTENDS Integers, Sequences, FiniteSets, TLC

VARIABLES
    state,      \* OutputParser.state: "Empty" | "Esc" | "Csi"
    partial,    \* OutputParser.partial
    csi,        \* the CsiParser held by AnsiBuilder::Csi (NoCsi otherwise)
    chunk,      \* the argument of the last parse call
    output,     \* the Vec<TerminalOutput> the last parse call returned
    returned,   \* the events of all parse calls so far, adjacent Text joined
    calls,      \* number of parse calls made
    aborted,    \* "none", or the panic that ended the process
    script,     \* the byte stream the pty will deliver (<<>>: any bytes)
    pos,        \* how many bytes the pty has delivered
    buffer,     \* Terminal.buffer
    cursor,     \* Terminal.cursor
    saved_cursor,    \* Terminal.saved_cursor
    read_aborted,    \* "none", or the panic of Terminal::read outside parse
    overflow_checks, \* "on": the build panics on usize overflow; "off": it wraps
    fd_read,    \* what the last nix::unistd::read gave: "none" | "bytes" | an errno
    read_result,     \* what the last Terminal::read returned: "none" | "Ok" | "Err" | "panic"
    wbytes,     \* the argument of Terminal::write
    remaining,  \* the local `bytes` of Terminal::write: what is still to write
    accepted,   \* the bytes the descriptor has accepted, in order
    fd_write,   \* what the last nix::unistd::write gave: "none" | "written" | an errno
    write_result     \* "none" | "running" | "Ok" | "Err"

\* the state of Terminal::write
wvars == <<wbytes, remaining, accepted, fd_write, write_result>>

vars == <<state, partial, csi, chunk, output, returned, calls, aborted,
          script, pos,
          buffer, cursor, saved_cursor, read_aborted, overflow_checks,
          fd_read, read_result, wbytes, remaining, accepted, fd_write,
          write_result>>

----------------------------------------------------------------------------
(* Bounds *)

\* parse calls per behaviour
MaxCalls == 3
\* longest chunk the pty delivers when it delivers arbitrary bytes
MaxChunk == 2
\* arbitrary bytes the pty delivers per behaviour
MaxBytes == 4
\* tokens (text bytes, CSI sequences) of a well-formed scripted stream
MaxTokens == 3
\* heap addresses a chunk buffer can start at
MaxBase == 3
\* usize::MAX, scaled from 2^64-1 to 16 bits to stay inside TLC's integers
UsizeMax == 65535
\* longest argument of Terminal::write
MaxWrite == 3

----------------------------------------------------------------------------
(* Bytes *)

ESC == 27
CSI == 91

SEMI == 59

IsDigit(b) == b >= 48 /\ b <= 57

is_csi_terminator(b) ==
    \/ b >= 65 /\ b <= 72          \* 'A'..='H'
    \/ b = 74 \/ b = 75            \* 'J' | 'K'
    \/ b = 83 \/ b = 84            \* 'S' | 'T'
    \/ b = 102                     \* 'f'
    \/ b = 109                     \* 'm'
    \/ b = 115 \/ b = 117          \* 's' | 'u'

----------------------------------------------------------------------------
(* TerminalOutput *)

Event(t, d, x, y) == [type |-> t, data |-> d, x |-> x, y |-> y]

Text(d) == Event("Text", d, 0, 0)
Ansi(d) == Event("Ansi", d, 0, 0)
SetCursorPos(x, y) == Event("SetCursorPos", <<>>, x, y)
ClearForwards == Event("ClearForwards", <<>>, 0, 0)
ClearBackwards == Event("ClearBackwards", <<>>, 0, 0)
ClearAll == Event("ClearAll", <<>>, 0, 0)
RestoreCursorPos == Event("RestoreCursorPos", <<>>, 0, 0)
SaveCursorPos == Event("SaveCursorPos", <<>>, 0, 0)

----------------------------------------------------------------------------
(* Cow<[u8]> *)

Borrowed(p, d) == [owned |-> FALSE, ptr |-> p, data |-> d]
Owned(d) == [owned |-> TRUE, ptr |-> 0, data |-> d]

\* Cow::Borrowed(&[])
StaticEmpty == Borrowed(0, <<>>)

\* push_byte that starts the view again at the byte instead of extending it
push_byte_overwrite(slice, byte, addr) ==
    IF slice.owned
    THEN [aborted |-> "none", slice |-> Owned(Append(slice.data, byte))]
    ELSE IF addr < slice.ptr
    THEN [aborted |-> "push_byte: byte below slice", slice |-> slice]
    ELSE [aborted |-> "none", slice |-> Borrowed(addr, <<byte>>)]

\* push_byte: the byte lives at address addr.
push_byte(slice, byte, addr) ==
    IF slice.owned
    THEN [aborted |-> "none", slice |-> Owned(Append(slice.data, byte))]
    ELSE IF addr < slice.ptr
    THEN [aborted |-> "push_byte: byte below slice", slice |-> slice]
    ELSE IF Len(slice.data) > 0
    THEN IF addr # slice.ptr + Len(slice.data)
         THEN [aborted |-> "push_byte: byte not contiguous", slice |-> slice]
         ELSE [aborted |-> "none",
               slice |-> Borrowed(slice.ptr, Append(slice.data, byte))]
    ELSE [aborted |-> "none", slice |-> Borrowed(addr, <<byte>>)]

----------------------------------------------------------------------------
(* CsiParser *)

\* CsiParser::new
CsiNew == [state |-> "Argument", arg |-> StaticEmpty, args |-> <<>>, term |-> 0]

\* the value of OutputParser.csi while the state is not AnsiBuilder::Csi
NoCsi == [state |-> "None", arg |-> StaticEmpty, args |-> <<>>, term |-> 0]

has_incomplete_output(c) ==
    c.state = "Argument" /\ Len(c.arg.data) > 0

\* take_incomplete that takes the digits out and leaves none behind
take_incomplete_lose(c) ==
    IF c.state = "Argument" /\ ~c.arg.owned /\ Len(c.arg.data) > 0
    THEN [c EXCEPT !.arg = Owned(<<>>)]
    ELSE c

take_incomplete(c) ==
    IF c.state = "Argument" /\ ~c.arg.owned /\ Len(c.arg.data) > 0
    THEN [c EXCEPT !.arg = Owned(c.arg.data)]
    ELSE c

\* usize::from_str_radix(str, 10): the decimal value, which stops growing
\* once it has left the word (the conversion then fails with PosOverflow).
RECURSIVE DecimalValue(_)
DecimalValue(digits) ==
    IF digits = <<>> THEN 0
    ELSE LET v == DecimalValue(SubSeq(digits, 1, Len(digits) - 1))
         IN IF v > UsizeMax THEN v
            ELSE v * 10 + (digits[Len(digits)] - 48)

\* accumulate, with the expect() on its conversion
accumulate(slice) ==
    IF Len(slice.data) > 0
    THEN IF DecimalValue(slice.data) > UsizeMax
         THEN [aborted |-> "expect: to have already validated the input",
               some |-> FALSE, val |-> 0]
         ELSE [aborted |-> "none", some |-> TRUE,
               val |-> DecimalValue(slice.data)]
    ELSE [aborted |-> "none", some |-> FALSE, val |-> 0]

\* CsiParser::push
CsiPush(c, byte, addr) ==
    IF c.state = "Finished"
    THEN [aborted |-> "attempted to push byte into finished CSI sequence",
          csi |-> c]
    ELSE IF is_csi_terminator(byte) \/ byte = SEMI
    THEN LET a == accumulate(c.arg)
             as == IF a.some THEN Append(c.args, a.val) ELSE c.args
         IN IF a.aborted # "none"
            THEN [aborted |-> a.aborted, csi |-> c]
            ELSE IF byte = SEMI
            THEN [aborted |-> "none",
                  csi |-> [c EXCEPT !.args = as, !.arg = StaticEmpty]]
            ELSE [aborted |-> "none",
                  csi |-> [state |-> "Finished", arg |-> StaticEmpty,
                           args |-> as, term |-> byte]]
    ELSE IF IsDigit(byte)
    THEN LET r == push_byte(c.arg, byte, addr)
         IN [aborted |-> r.aborted, csi |-> [c EXCEPT !.arg = r.slice]]
    ELSE [aborted |-> "none", csi |-> [c EXCEPT !.arg = Owned(c.arg.data)]]

----------------------------------------------------------------------------
(* OutputParser *)

\* OutputParser::new
ParserNew ==
    [state |-> "Empty", partial |-> StaticEmpty, csi |-> NoCsi,
     output |-> <<>>, aborted |-> "none"]

partial_push(p, byte, addr) ==
    LET r == push_byte(p.partial, byte, addr)
    IN [p EXCEPT !.partial = r.slice, !.aborted = r.aborted]

\* Vec::pop().unwrap_or(d) on args: the value, and what is left
PopOr(args, d) ==
    IF Len(args) = 0
    THEN [val |-> d, some |-> FALSE, rest |-> args]
    ELSE [val |-> args[Len(args)], some |-> TRUE,
          rest |-> SubSeq(args, 1, Len(args) - 1)]

\* the H arm of the Csi branch
FinishH(args) ==
    LET first == PopOr(args, 1)
        second == PopOr(first.rest, 1)
    IN SetCursorPos(first.val, second.val)

\* the J arm with the commands of 1 and 2 exchanged
FinishJ_swapped(args) ==
    LET a == PopOr(args, 0)
    IN IF ~a.some \/ a.val = 0 THEN ClearForwards
       ELSE IF a.val = 1 THEN ClearAll
       ELSE IF a.val = 2 THEN ClearBackwards
       ELSE Event("panic", <<>>, 0, 0)

\* the J arm of the Csi branch: the command, or "panic"
FinishJ(args) ==
    LET a == PopOr(args, 0)
    IN IF ~a.some \/ a.val = 0 THEN ClearForwards
       ELSE IF a.val = 1 THEN ClearBackwards
       ELSE IF a.val = 2 THEN ClearAll
       ELSE Event("panic", <<>>, 0, 0)

\* the match on parser.state that never leaves the Csi state
CsiFinish_no_reset(p, c) ==
    [p EXCEPT !.csi = c]

\* the match on parser.state after parser.push(byte)
CsiFinish(p, c) ==
    IF c.state # "Finished"
    THEN [p EXCEPT !.csi = c]
    ELSE IF c.term = 74 /\ FinishJ(c.args).type = "panic"
    THEN [p EXCEPT !.csi = c, !.aborted = "invalid argument for J command"]
    ELSE LET ev == IF c.term = 72 THEN FinishH(c.args)
                   ELSE IF c.term = 74 THEN FinishJ(c.args)
                   ELSE IF c.term = 115 THEN SaveCursorPos
                   ELSE IF c.term = 117 THEN RestoreCursorPos
                   ELSE Ansi(<<>>)
         IN [p EXCEPT !.state = "Empty", !.csi = NoCsi,
                      !.output = Append(p.output, ev)]

\* one iteration of the loop of parse: byte is at address addr of the chunk
\* that starts at address base
ParseByte(p, byte, addr, base) ==
    IF p.state = "Empty"
    THEN IF byte = ESC
         THEN IF Len(p.partial.data) > 0
              THEN [p EXCEPT !.output = Append(p.output, Text(p.partial.data)),
                             !.partial = Borrowed(base, <<>>),
                             !.state = "Esc"]
              ELSE [p EXCEPT !.state = "Esc"]
         ELSE partial_push(p, byte, addr)
    ELSE IF p.state = "Esc"
    THEN IF byte = CSI
         THEN [p EXCEPT !.state = "Csi", !.csi = CsiNew]
         ELSE IF is_csi_terminator(byte)
         THEN [p EXCEPT !.aborted = "unreachable"]
         ELSE partial_push(p, byte, addr)
    ELSE LET r == CsiPush(p.csi, byte, addr)
         IN IF r.aborted # "none"
            THEN [p EXCEPT !.aborted = r.aborted]
            ELSE CsiFinish(p, r.csi)

\* the for loop of parse, from the i-th byte on
RECURSIVE ParseLoop(_, _, _, _)
ParseLoop(p, bytes, i, base) ==
    IF i > Len(bytes) \/ p.aborted # "none"
    THEN p
    ELSE ParseLoop(ParseByte(p, bytes[i], base + i - 1, base), bytes, i + 1, base)

\* partial_take that keeps pending text for the next call instead of
\* returning it
partial_take_retain(p) ==
    IF p.state = "Empty"
    THEN IF ~p.partial.owned /\ Len(p.partial.data) > 0
         THEN [p EXCEPT !.partial = Owned(p.partial.data)]
         ELSE p
    ELSE IF p.state = "Csi"
    THEN IF has_incomplete_output(p.csi)
         THEN [p EXCEPT !.csi = take_incomplete(p.csi)]
         ELSE p
    ELSE IF ~p.partial.owned /\ Len(p.partial.data) > 0
         THEN [p EXCEPT !.partial = Owned(p.partial.data)]
         ELSE p

\* partial_take that forgets the pending text instead of returning it
partial_take_drop(p) ==
    IF p.state = "Empty"
    THEN [p EXCEPT !.partial = StaticEmpty]
    ELSE IF p.state = "Csi"
    THEN IF has_incomplete_output(p.csi)
         THEN [p EXCEPT !.csi = take_incomplete(p.csi)]
         ELSE p
    ELSE IF ~p.partial.owned /\ Len(p.partial.data) > 0
         THEN [p EXCEPT !.partial = Owned(p.partial.data)]
         ELSE p

\* partial_take that returns a copy of the pending text and leaves it pending
partial_take_keep(p) ==
    IF p.state = "Empty"
    THEN IF Len(p.partial.data) > 0
         THEN [p EXCEPT !.output = Append(p.output, Text(p.partial.data)),
                        !.partial = Owned(p.partial.data)]
         ELSE p
    ELSE IF p.state = "Csi"
    THEN IF has_incomplete_output(p.csi)
         THEN [p EXCEPT !.csi = take_incomplete(p.csi)]
         ELSE p
    ELSE IF ~p.partial.owned /\ Len(p.partial.data) > 0
         THEN [p EXCEPT !.partial = Owned(p.partial.data)]
         ELSE p

partial_take(p) ==
    IF p.state = "Empty"
    THEN IF Len(p.partial.data) > 0
         THEN [p EXCEPT !.output = Append(p.output, Text(p.partial.data)),
                        !.partial = StaticEmpty]
         ELSE p
    ELSE IF p.state = "Csi"
    THEN IF has_incomplete_output(p.csi)
         THEN [p EXCEPT !.csi = take_incomplete(p.csi)]
         ELSE p
    ELSE IF ~p.partial.owned /\ Len(p.partial.data) > 0
         THEN [p EXCEPT !.partial = Owned(p.partial.data)]
         ELSE p

\* parse that starts every call in Empty instead of resuming
parse_fresh_state(p, bytes, base) ==
    LET p0 == [p EXCEPT !.output = <<>>,
                        !.state = "Empty",
                        !.csi = NoCsi,
                        !.partial = IF Len(p.partial.data) = 0
                                    THEN Borrowed(base, <<>>)
                                    ELSE p.partial]
        p1 == ParseLoop(p0, bytes, 1, base)
    IN IF p1.aborted # "none" THEN p1 ELSE partial_take(p1)

\* OutputParser::parse on the chunk bytes, whose buffer starts at base
parse(p, bytes, base) ==
    LET p0 == [p EXCEPT !.output = <<>>,
                        !.partial = IF Len(p.partial.data) = 0
                                    THEN Borrowed(base, <<>>)
                                    ELSE p.partial]
        p1 == ParseLoop(p0, bytes, 1, base)
    IN IF p1.aborted # "none" THEN p1 ELSE partial_take(p1)

----------------------------------------------------------------------------
(* CursorPos and Terminal *)

\* CursorPos::new
CursorNew(x, y) == [x |-> x, y |-> y]

\* Option<CursorPos>
NoCursor == [some |-> FALSE, x |-> 0, y |-> 0]
SomeCursor(c) == [some |-> TRUE, x |-> c.x, y |-> c.y]

\* usize a + b and a - b: [ok, val]; leaving the word is a panic with
\* overflow checks and wraps without
UAdd(a, b, checks) ==
    IF a + b <= UsizeMax THEN [ok |-> TRUE, val |-> a + b]
    ELSE [ok |-> ~checks, val |-> a + b - (UsizeMax + 1)]

USub(a, b, checks) ==
    IF a >= b THEN [ok |-> TRUE, val |-> a - b]
    ELSE [ok |-> ~checks, val |-> a - b + (UsizeMax + 1)]

\* buffer.split(|b| *b == b'\n').map(|line| line.len()): the lengths of the
\* lines, of which there is always at least one
RECURSIVE LineLengths(_)
LineLengths(buf) ==
    IF buf = <<>> THEN <<0>>
    ELSE LET r == LineLengths(SubSeq(buf, 1, Len(buf) - 1))
         IN IF buf[Len(buf)] = 10 THEN Append(r, 0)
            ELSE [r EXCEPT ![Len(r)] = r[Len(r)] + 1]

\* .take(n).sum::<usize>()
RECURSIVE SumFirst(_, _)
SumFirst(lens, n) ==
    IF n = 0 \/ lens = <<>> THEN 0
    ELSE lens[1] + SumFirst(SubSeq(lens, 2, Len(lens)), n - 1)

\* CursorPos::to_buffer_pos: [ok, val]
to_buffer_pos(c, buf, checks) ==
    UAdd(SumFirst(LineLengths(buf), c.y), c.x, checks)

UpdateByte_tab_as_one(c, byte, checks) ==
    IF byte = 10
    THEN LET r == UAdd(c.y, 1, checks)
         IN [ok |-> r.ok, cursor |-> [x |-> 0, y |-> r.val]]
    ELSE IF byte = 13
    THEN [ok |-> TRUE, cursor |-> [c EXCEPT !.x = 0]]
    ELSE LET r == UAdd(c.x, 1, checks)
         IN [ok |-> r.ok, cursor |-> [c EXCEPT !.x = r.val]]

\* one iteration of CursorPos::update: [ok, cursor]
UpdateByte(c, byte, checks) ==
    IF byte = 10
    THEN LET r == UAdd(c.y, 1, checks)
         IN [ok |-> r.ok, cursor |-> [x |-> 0, y |-> r.val]]
    ELSE IF byte = 13
    THEN [ok |-> TRUE, cursor |-> [c EXCEPT !.x = 0]]
    ELSE LET r == UAdd(c.x, IF byte = 9 THEN 4 ELSE 1, checks)
         IN [ok |-> r.ok, cursor |-> [c EXCEPT !.x = r.val]]

\* CursorPos::update: [ok, cursor]
RECURSIVE update(_, _, _)
update(c, incoming, checks) ==
    IF incoming = <<>> THEN [ok |-> TRUE, cursor |-> c]
    ELSE LET r == UpdateByte(c, incoming[1], checks)
         IN IF ~r.ok THEN r
            ELSE update(r.cursor, SubSeq(incoming, 2, Len(incoming)), checks)

\* the terminal state Terminal::read works on
Terminal == [buffer |-> buffer, cursor |-> cursor,
             saved_cursor |-> saved_cursor, aborted |-> read_aborted]

\* Terminal::new
TerminalNew == [buffer |-> <<>>, cursor |-> CursorNew(0, 0),
                saved_cursor |-> NoCursor, aborted |-> "none"]

\* the arms of the match in Terminal::read

\* Text(text): self.cursor.update(&text); self.buffer.extend_from_slice(&text)
ApplyText(t, ev, checks) ==
    LET r == update(t.cursor, ev.data, checks)
    IN IF ~r.ok THEN [t EXCEPT !.aborted = "attempt to add with overflow"]
       ELSE [t EXCEPT !.cursor = r.cursor, !.buffer = t.buffer \o ev.data]

\* SetCursorPos { x, y }: self.cursor.x = x - 1; self.cursor.y = y - 1
ApplySetCursorPos(t, ev, checks) ==
    LET rx == USub(ev.x, 1, checks)
        ry == USub(ev.y, 1, checks)
    IN IF ~rx.ok \/ ~ry.ok
       THEN [t EXCEPT !.aborted = "attempt to subtract with overflow"]
       ELSE [t EXCEPT !.cursor = [x |-> rx.val, y |-> ry.val]]

\* ClearForwards: self.buffer.drain(pos..)
ApplyClearForwards(t, checks) ==
    LET p == to_buffer_pos(t.cursor, t.buffer, checks)
    IN IF ~p.ok THEN [t EXCEPT !.aborted = "attempt to add with overflow"]
       ELSE IF p.val > Len(t.buffer)
       THEN [t EXCEPT !.aborted = "drain: range start out of bounds"]
       ELSE [t EXCEPT !.buffer = SubSeq(t.buffer, 1, p.val)]

\* ClearBackwards: self.buffer.drain(..pos)
ApplyClearBackwards(t, checks) ==
    LET p == to_buffer_pos(t.cursor, t.buffer, checks)
    IN IF ~p.ok THEN [t EXCEPT !.aborted = "attempt to add with overflow"]
       ELSE IF p.val > Len(t.buffer)
       THEN [t EXCEPT !.aborted = "drain: range end out of bounds"]
       ELSE [t EXCEPT !.buffer = SubSeq(t.buffer, p.val + 1, Len(t.buffer))]

ApplyClearAll_keep_cursor(t) == [t EXCEPT !.buffer = <<>>]

\* ClearAll: self.buffer.clear(); self.cursor.x = 0; self.cursor.y = 0
ApplyClearAll(t) == [t EXCEPT !.buffer = <<>>, !.cursor = [x |-> 0, y |-> 0]]

ApplyRestoreCursorPos_drop(t) == [t EXCEPT !.saved_cursor = NoCursor]

ApplyRestoreCursorPos_always(t) ==
    [t EXCEPT !.cursor = [x |-> t.saved_cursor.x, y |-> t.saved_cursor.y],
              !.saved_cursor = NoCursor]

\* RestoreCursorPos: if let Some(saved) = self.saved_cursor.take()
ApplyRestoreCursorPos(t) ==
    IF t.saved_cursor.some
    THEN [t EXCEPT !.cursor = [x |-> t.saved_cursor.x, y |-> t.saved_cursor.y],
                   !.saved_cursor = NoCursor]
    ELSE t

\* SaveCursorPos: self.saved_cursor = Some(self.cursor.clone())
ApplySaveCursorPos(t) == [t EXCEPT !.saved_cursor = SomeCursor(t.cursor)]

\* the match in Terminal::read
ApplyEvent(t, ev, checks) ==
    IF ev.type = "Text" THEN ApplyText(t, ev, checks)
    ELSE IF ev.type = "SetCursorPos" THEN ApplySetCursorPos(t, ev, checks)
    ELSE IF ev.type = "ClearForwards" THEN ApplyClearForwards(t, checks)
    ELSE IF ev.type = "ClearBackwards" THEN ApplyClearBackwards(t, checks)
    ELSE IF ev.type = "ClearAll" THEN ApplyClearAll(t)
    ELSE IF ev.type = "RestoreCursorPos" THEN ApplyRestoreCursorPos(t)
    ELSE IF ev.type = "SaveCursorPos" THEN ApplySaveCursorPos(t)
    ELSE t

\* the loop over the segments in Terminal::read, from the i-th segment on
RECURSIVE ApplyEvents(_, _, _, _)
ApplyEvents(t, segments, i, checks) ==
    IF i > Len(segments) \/ t.aborted # "none"
    THEN t
    ELSE ApplyEvents(ApplyEvent(t, segments[i], checks), segments, i + 1, checks)

----------------------------------------------------------------------------
(* The pty and the calls of parse *)

\* the bytes a chunk of arbitrary data is made of: ESC, '[', ';', '1', '9',
\* 'J' and 'x' (one byte of every class the parser tells apart)
Alphabet == {ESC, CSI, SEMI, 49, 57, 74, 120}

RECURSIVE SeqsUpTo(_, _)
SeqsUpTo(S, n) ==
    IF n = 0 THEN {<<>>}
    ELSE LET shorter == SeqsUpTo(S, n - 1)
         IN shorter \cup {Append(s, b) : s \in {t \in shorter : Len(t) = n - 1}, b \in S}

Chunks == SeqsUpTo(Alphabet, MaxChunk)

Parser == [state |-> state, partial |-> partial, csi |-> csi,
           output |-> output, aborted |-> aborted]

\* A non-empty borrowed span that outlived the call it was made in views a
\* buffer that no longer exists.
Dangling(slice) == ~slice.owned /\ Len(slice.data) > 0

\* Where the buffer of the next chunk can lie.  Addresses are only ever
\* compared with those of a retained view, so without one the place is fixed.
Placements(slice) == IF Dangling(slice) THEN 1..MaxBase ELSE {1}

\* What a span shows once the chunk bytes are in a buffer at base: a view
\* into a dead buffer shows the new bytes where the new buffer overlaps it
\* and elsewhere either its old bytes or zeroes (a recycled, zeroed buffer).
Views(slice, bytes, base) ==
    IF ~Dangling(slice) THEN {slice}
    ELSE LET n == Len(slice.data)
             Cell(i) == LET a == slice.ptr + i - 1
                        IN IF a >= base /\ a < base + Len(bytes)
                           THEN {bytes[a - base + 1]}
                           ELSE {slice.data[i], 0}
         IN {Borrowed(slice.ptr, d) :
                d \in {e \in [1..n -> UNION {Cell(i) : i \in 1..n}] :
                          \A i \in 1..n : e[i] \in Cell(i)}}

\* adjacent Text events joined into one
RECURSIVE MergeText(_)
MergeText(evs) ==
    IF Len(evs) <= 1 THEN evs
    ELSE LET m == MergeText(SubSeq(evs, 1, Len(evs) - 1))
             l == evs[Len(evs)]
         IN IF l.type = "Text" /\ m[Len(m)].type = "Text"
            THEN [m EXCEPT ![Len(m)] = Text(m[Len(m)].data \o l.data)]
            ELSE Append(m, l)

\* the process is alive (and the behaviour not at its bound)
CanCall == aborted = "none" /\ read_aborted = "none" /\ calls < MaxCalls

\* the Ok arm of Terminal::read: one call parser.parse(bytes), and the
\* segments it returns applied in order, by the build this process is
Call(bytes, base, view) ==
    /\ LET r == parse([Parser EXCEPT !.partial = view], bytes, base)
           segments == IF r.aborted = "none" THEN r.output ELSE <<>>
           checked == ApplyEvents(Terminal, segments, 1, TRUE)
           wrapping == ApplyEvents(Terminal, segments, 1, FALSE)
           outcomes == IF overflow_checks = "on" THEN {checked}
                       ELSE IF overflow_checks = "off" THEN {wrapping}
                       ELSE {checked, wrapping}
       IN \E t \in outcomes :
          /\ overflow_checks' = IF checked = wrapping THEN overflow_checks
                                ELSE IF t = checked THEN "on" ELSE "off"
          /\ state' = r.state
          /\ partial' = r.partial
          /\ csi' = r.csi
          /\ aborted' = r.aborted
          /\ output' = segments
          /\ returned' = MergeText(returned \o segments)
          /\ buffer' = t.buffer
          /\ cursor' = t.cursor
          /\ saved_cursor' = t.saved_cursor
          /\ read_aborted' = t.aborted
          /\ read_result' = IF r.aborted = "none" /\ t.aborted = "none"
                            THEN "Ok" ELSE "panic"
    /\ fd_read' = "bytes"
    /\ chunk' = bytes
    /\ calls' = calls + 1
    /\ UNCHANGED wvars

\* the pty delivers any bytes
Read ==
    /\ CanCall
    /\ \E bytes \in {c \in Chunks : pos + Len(c) <= MaxBytes} :
        \E base \in Placements(partial) :
            \E view \in Views(partial, bytes, base) :
                /\ Call(bytes, base, view)
                /\ pos' = pos + Len(bytes)
                /\ UNCHANGED script

\* the pty delivers the next n bytes of the script
ReadScript ==
    /\ CanCall
    /\ \E n \in 0..(Len(script) - pos) :
        LET bytes == SubSeq(script, pos + 1, pos + n)
        IN \E base \in Placements(partial) :
               \E view \in Views(partial, bytes, base) :
                   /\ Call(bytes, base, view)
                   /\ pos' = pos + n
                   /\ UNCHANGED script

InitParser ==
    /\ state = ParserNew.state
    /\ partial = ParserNew.partial
    /\ csi = ParserNew.csi
    /\ output = <<>>
    /\ returned = <<>>
    /\ aborted = "none"
    /\ chunk = <<>>
    /\ calls = 0
    /\ pos = 0

InitTerminal ==
    /\ buffer = TerminalNew.buffer
    /\ cursor = TerminalNew.cursor
    /\ saved_cursor = TerminalNew.saved_cursor
    /\ read_aborted = "none"
    /\ overflow_checks = "undetermined"
    /\ fd_read = "none"
    /\ read_result = "none"
    /\ wbytes = <<>>
    /\ remaining = <<>>
    /\ accepted = <<>>
    /\ fd_write = "none"
    /\ write_result = "none"

Init == InitParser /\ InitTerminal /\ script = <<>>

Next == Read

Spec == Init /\ [][Next]_vars

----------------------------------------------------------------------------
(* Scripted streams: the wire format ESC [ <arg>(;<arg>)* <terminator> *)

CsiSeq(argbytes, term) == <<ESC, CSI>> \o argbytes \o <<term>>

\* 'a', 'b', ESC[1;12H, ESC[3J
WFTokens ==
    {<<97>>, <<98>>, CsiSeq(<<49, SEMI, 49, 50>>, 72), CsiSeq(<<51>>, 74)}

RECURSIVE TokenStreams(_)
TokenStreams(n) ==
    IF n = 0 THEN {<<>>}
    ELSE LET shorter == TokenStreams(n - 1)
         IN shorter \cup {s \o t : s \in shorter, t \in WFTokens}

\* well-formed streams: plain text and complete CSI sequences
WFStreams == TokenStreams(MaxTokens)

\* the digit runs of an argument: none, 0, 1, 2, 3, 5, 7, 12, 99999
ArgDigits ==
    {<<>>, <<48>>, <<49>>, <<50>>, <<51>>, <<53>>, <<55>>, <<49, 50>>,
     <<57, 57, 57, 57, 57>>}

\* one argument, or two separated by ';'
ArgStrings == ArgDigits \cup {a \o <<SEMI>> \o b : a \in ArgDigits, b \in ArgDigits}

\* H, J, s, u and, of the terminators without a command, A, K, f, m
Terminators == {72, 74, 115, 117, 65, 75, 102, 109}

\* single well-formed CSI sequences
CsiSequences == {CsiSeq(a, t) : a \in ArgStrings, t \in Terminators}

\* bytes that are no digit, no ';' and no terminator: 'x', ' '
InvalidBytes == {120, 32}

\* what stands before and after the invalid byte: nothing, 1, 3 / 2, ;5
BeforeInvalid == {<<>>, <<49>>, <<51>>}
AfterInvalid == {<<>>, <<50>>, <<SEMI, 53>>}

\* single CSI sequences with one invalid byte among the arguments
MalformedCsiSequences ==
    {CsiSeq(a \o <<b>> \o c, t) :
        a \in BeforeInvalid, b \in InvalidBytes, c \in AfterInvalid,
        t \in Terminators}

\* what may stand between ESC and '[': nothing, 'x', ESC, 'm'
AfterEsc == {<<>>, <<120>>, <<ESC>>, <<109>>}

\* text before the ESC and after the terminator
TextBefore == {<<>>, <<119>>}
TextAfter == {<<>>, <<121>>, <<121, 122>>}

\* an escape sequence with stray bytes after its ESC, in text:
\* text ESC stray [ arg terminator text, the terminator one of H, J, m
StrayEscStreams ==
    {w \o <<ESC>> \o g \o <<CSI>> \o a \o <<t>> \o y :
        w \in TextBefore, g \in AfterEsc, a \in {<<>>, <<49>>},
        t \in {72, 74, 109}, y \in TextAfter}

InitWF == InitParser /\ InitTerminal /\ script \in WFStreams

InitStray == InitParser /\ InitTerminal /\ script \in StrayEscStreams

InitMalformed == InitParser /\ InitTerminal /\ script \in MalformedCsiSequences

InitCsi == InitParser /\ InitTerminal /\ script \in CsiSequences

NextScript == ReadScript

\* a well-formed stream, delivered in chunks cut anywhere
SpecWF == InitWF /\ [][NextScript]_vars

\* one CSI sequence, delivered in chunks cut anywhere
SpecCsi == InitCsi /\ [][NextScript]_vars

\* what a program writes to the terminal in one piece: the texts
\* "line1\nline2\nline3", "a", "\n", "\r", "\t", "a\t\rb\nc" and the
\* sequences ESC[2;3H, ESC[H, ESC[0;0H, ESC[J, ESC[1J, ESC[2J, ESC[s, ESC[u,
\* and ESC[s "a\n" ESC[u
TermTokens ==
    {<<108, 105, 110, 101, 49, 10, 108, 105, 110, 101, 50, 10,
       108, 105, 110, 101, 51>>,
     <<97>>, <<10>>, <<13>>, <<9>>, <<97, 9, 13, 98, 10, 99>>,
     CsiSeq(<<50, SEMI, 51>>, 72), CsiSeq(<<>>, 72), CsiSeq(<<48, SEMI, 48>>, 72),
     CsiSeq(<<>>, 74), CsiSeq(<<49>>, 74), CsiSeq(<<50>>, 74),
     CsiSeq(<<>>, 115), CsiSeq(<<>>, 117),
     CsiSeq(<<>>, 115) \o <<97, 10>> \o CsiSeq(<<>>, 117)}

\* the pty delivers one whole write per read
ReadToken ==
    /\ CanCall
    /\ \E bytes \in TermTokens :
        \E base \in Placements(partial) :
            \E view \in Views(partial, bytes, base) :
                /\ Call(bytes, base, view)
                /\ pos' = pos + Len(bytes)
                /\ UNCHANGED script

\* the errnos of a failed descriptor read or write other than EAGAIN
OtherErrnos == {"EIO", "EBADF"}

\* the process is alive
Alive == aborted = "none" /\ read_aborted = "none"

ReadWouldBlock_as_error ==
    /\ Alive
    /\ fd_read' = "EAGAIN"
    /\ read_result' = "Err"
    /\ UNCHANGED <<state, partial, csi, chunk, output, returned, calls,
                   aborted, script, pos, buffer, cursor, saved_cursor, read_aborted,
                   overflow_checks, wvars>>

\* Terminal::read, Err(Errno::EAGAIN) arm: nothing to read, Ok(())
ReadWouldBlock ==
    /\ Alive
    /\ fd_read' = "EAGAIN"
    /\ read_result' = "Ok"
    /\ UNCHANGED <<state, partial, csi, chunk, output, returned, calls,
                   aborted, script, pos, buffer, cursor, saved_cursor, read_aborted,
                   overflow_checks, wvars>>

\* Terminal::read, Err(e) arm: the error is returned to the caller
ReadError ==
    /\ Alive
    /\ \E e \in OtherErrnos : fd_read' = e
    /\ read_result' = "Err"
    /\ UNCHANGED <<state, partial, csi, chunk, output, returned, calls,
                   aborted, script, pos, buffer, cursor, saved_cursor, read_aborted,
                   overflow_checks, wvars>>

NextTerm == ReadToken \/ ReadWouldBlock \/ ReadError

\* texts and CSI sequences, each delivered whole by one read
SpecTerm == Init /\ [][NextTerm]_vars

----------------------------------------------------------------------------
(* Terminal::write *)

\* what Terminal::read and the parser work on
rvars == <<state, partial, csi, chunk, output, returned, calls, aborted,
           script, pos,
           buffer, cursor, saved_cursor, read_aborted, overflow_checks,
           fd_read, read_result>>

\* 'a', 'b', '\r'
WriteAlphabet == {97, 98, 13}

\* the arguments of write
WriteArgs == SeqsUpTo(WriteAlphabet, MaxWrite)

AfterWritten_skip(bytes, written) == SubSeq(bytes, written + 2, Len(bytes))

\* &bytes[written..]
AfterWritten(bytes, written) == SubSeq(bytes, written + 1, Len(bytes))

\* Terminal::write(bytes) is called: let mut bytes = &bytes[..]
WriteCall ==
    /\ Alive
    /\ write_result = "none"
    /\ \E w \in WriteArgs :
        /\ wbytes' = w
        /\ remaining' = w
    /\ accepted' = <<>>
    /\ fd_write' = "none"
    /\ write_result' = "running"
    /\ UNCHANGED rvars

\* the loop is at nix::unistd::write with bytes left
Writing == write_result = "running" /\ remaining # <<>>

\* Ok(written): the descriptor has taken the first `written` bytes
WriteAccept(written) ==
    /\ Writing
    /\ accepted' = accepted \o SubSeq(remaining, 1, written)
    /\ remaining' = AfterWritten(remaining, written)
    /\ fd_write' = "written"
    /\ UNCHANGED <<wbytes, write_result, rvars>>

\* Ok(written) with at least one byte taken
WriteAcceptSome == \E written \in 1..Len(remaining) : WriteAccept(written)

\* Ok(0)
WriteAcceptNone == WriteAccept(0)

\* Err(Errno::EAGAIN) => continue
WriteWouldBlock ==
    /\ Writing
    /\ fd_write' = "EAGAIN"
    /\ UNCHANGED <<wbytes, remaining, accepted, write_result, rvars>>

\* Err(e) => return Err(..)
WriteError ==
    /\ Writing
    /\ \E e \in OtherErrnos : fd_write' = e
    /\ write_result' = "Err"
    /\ UNCHANGED <<wbytes, remaining, accepted, rvars>>

\* while bytes.len() > 0 is false: Ok(())
WriteReturn ==
    /\ write_result = "running"
    /\ remaining = <<>>
    /\ write_result' = "Ok"
    /\ UNCHANGED <<wbytes, remaining, accepted, fd_write, rvars>>

NextWrite ==
    \/ WriteCall
    \/ WriteAcceptSome
    \/ WriteAcceptNone
    \/ WriteWouldBlock
    \/ WriteError
    \/ WriteReturn

\* one call of write
SpecWrite == Init /\ [][NextWrite]_vars

\* one call of write, on a descriptor that takes at least one byte again and
\* again while bytes are left; the loop itself keeps running
SpecWriteFair ==
    SpecWrite /\ WF_vars(WriteAcceptSome) /\ WF_vars(WriteReturn)

\* one CSI sequence with an invalid byte, delivered in chunks cut anywhere
SpecMalformed == InitMalformed /\ [][NextScript]_vars

\* an escape sequence with stray bytes after its ESC, delivered in chunks
\* cut anywhere
SpecStray == InitStray /\ [][NextScript]_vars

\* one parse call on the whole stream s by a fresh parser
OneShot(s) == parse(ParserNew, s, 1)

----------------------------------------------------------------------------
(* Notions the properties are stated with *)

\* Framing of a well-formed stream s, read off the wire format: after its
\* first i bytes the stream is inside an escape sequence.
RECURSIVE InSequenceAfter(_, _)
InSequenceAfter(s, i) ==
    IF i = 0 THEN FALSE
    ELSE IF InSequenceAfter(s, i - 1) THEN ~is_csi_terminator(s[i])
    ELSE s[i] = ESC

\* byte i of the well-formed stream s is plain text
IsTextAt(s, i) == ~InSequenceAfter(s, i - 1) /\ s[i] # ESC

\* the plain text of s that ends at byte hi and starts at byte lo or later
RECURSIVE TextRun(_, _, _)
TextRun(s, lo, hi) ==
    IF hi < lo \/ ~IsTextAt(s, hi) THEN <<>>
    ELSE Append(TextRun(s, lo, hi - 1), s[hi])

\* the value of an argument with digits d, or def when it is omitted
ArgOr(d, def) == IF d = <<>> THEN def ELSE DecimalValue(d)

LastOf(seq) == seq[Len(seq)]

----------------------------------------------------------------------------
(* C1: round-trip framing *)

\* the second of two parse calls that together deliver the whole script
SecondHalf == calls = 1 /\ calls' = 2 /\ pos' = Len(script)

----------------------------------------------------------------------------
(* C2: no abort on input data *)

\* C2: no parse call aborts, whatever bytes the chunks hold.
C2_NeverAborts == aborted = "none"

----------------------------------------------------------------------------
(* C3: pending text at the end of a chunk *)

\* the last call returned, and the last byte of its chunk was plain text
EndsInText ==
    /\ calls >= 1 /\ aborted = "none"
    /\ chunk # <<>> /\ IsTextAt(script, pos)

----------------------------------------------------------------------------
(* C4: a chunk of plain text on a fresh parser *)

NoEsc(bytes) == \A i \in 1..Len(bytes) : bytes[i] # ESC

\* C4: the first parse call, on a non-empty chunk without ESC, returns
\* exactly one event, Text of the bytes of the chunk in order.
C4_PlainChunkIsOneText ==
    (calls = 1 /\ chunk # <<>> /\ NoEsc(chunk))
        => aborted = "none" /\ output = <<Text(chunk)>>

C4_Witness ==
    /\ calls = 1 /\ Len(chunk) = 2 /\ NoEsc(chunk) /\ chunk[1] # chunk[2]
    /\ output = <<Text(chunk)>>

----------------------------------------------------------------------------
(* C5: a CSI sequence split between two calls *)

\* C5: a CSI sequence split at an interior byte boundary: the first call
\* returns no events; the second returns exactly the one event that a
\* single call on the whole sequence returns (and aborts if that call does).
C5_SplitCsi ==
    /\ (calls = 1 /\ 0 < pos /\ pos < Len(script))
          => /\ output = <<>>
             /\ aborted # "none" => OneShot(script).aborted # "none"
    /\ (calls = 2 /\ pos = Len(script) /\ 0 < Len(chunk) /\ Len(chunk) < Len(script))
          => LET whole == OneShot(script)
             IN /\ (aborted = "none") <=> (whole.aborted = "none")
                /\ whole.aborted = "none"
                      => Len(output) = 1 /\ output = whole.output

\* ESC[1;1 then 2H
C5_Witness ==
    /\ script = CsiSeq(<<49, SEMI, 49, 50>>, 72)
    /\ calls = 2 /\ chunk = <<50, 72>>
    /\ output = <<SetCursorPos(12, 1)>>

----------------------------------------------------------------------------
(* C6: an empty chunk *)

\* C6: a parse call with an empty chunk returns no events (and cannot
\* abort), in whatever state the earlier calls left the parser.
C6_EmptyChunkEmitsNothing ==
    (calls >= 1 /\ chunk = <<>>) => aborted = "none" /\ output = <<>>

\* an empty chunk after text was flushed and an escape begun: the parser is
\* in Esc and holds bytes in the pending span
C6_Witness ==
    /\ calls = 3 /\ chunk = <<>>
    /\ state = "Esc" /\ partial.data # <<>>
    /\ output = <<>>

----------------------------------------------------------------------------
(* C7: the arguments of H *)

\* the script has been delivered to the end by a call that returned
Delivered == pos = Len(script) /\ chunk # <<>> /\ aborted = "none"

\* C7: ESC [ a H gives row a (1 if omitted), col 1; ESC [ a ; b H gives
\* row a (1 if omitted), col b (1 if omitted).  (x is the column, y the row.)
C7_RowThenCol ==
    Delivered =>
        /\ \A a \in ArgDigits :
               script = CsiSeq(a, 72)
                   => LastOf(output) = SetCursorPos(1, ArgOr(a, 1))
        /\ \A a \in ArgDigits, b \in ArgDigits :
               script = CsiSeq(a \o <<SEMI>> \o b, 72)
                   => LastOf(output) = SetCursorPos(ArgOr(b, 1), ArgOr(a, 1))

----------------------------------------------------------------------------
(* C8: the argument of J *)

\* C8: ESC[J and ESC[0J give ClearForwards, ESC[1J ClearBackwards, ESC[2J
\* ClearAll: the only event of the call that gets the terminator, which
\* leaves the parser Idle.
C8_ClearCommand ==
    (pos = Len(script) /\ chunk # <<>>) =>
        /\ script \in {CsiSeq(<<>>, 74), CsiSeq(<<48>>, 74)}
              => aborted = "none" /\ state = "Empty" /\ output = <<ClearForwards>>
        /\ script = CsiSeq(<<49>>, 74)
              => aborted = "none" /\ state = "Empty" /\ output = <<ClearBackwards>>
        /\ script = CsiSeq(<<50>>, 74)
              => aborted = "none" /\ state = "Empty" /\ output = <<ClearAll>>

\* ESC[2 then J
C8_Witness ==
    /\ script = CsiSeq(<<50>>, 74)
    /\ calls = 2 /\ chunk = <<74>>
    /\ output = <<ClearAll>>

----------------------------------------------------------------------------
(* C9: an invalid argument of J *)

\* C9: ESC [ n J with n outside {0, 1, 2} does not abort: it is taken as
\* ClearForwards and the parser is Idle again.
C9_InvalidJRecovers ==
    \A a \in ArgDigits :
        (script = CsiSeq(a, 74) /\ a # <<>> /\ DecimalValue(a) > 2
            /\ pos = Len(script) /\ chunk # <<>>)
        => aborted = "none" /\ state = "Empty" /\ output = <<ClearForwards>>

----------------------------------------------------------------------------
(* C10: an invalid byte in a CSI sequence *)

InvalidCsiByte(b) == ~IsDigit(b) /\ b # SEMI /\ ~is_csi_terminator(b)

\* C10: in Csi state an invalid byte does not abort and leaves the parser in
\* Csi; the next terminator returns it to Idle, with nothing pending, as a
\* fresh parser is.
C10_MalformedCsiTolerated ==
    [][(calls' = calls + 1 /\ state = "Csi" /\ chunk' # <<>>
            /\ InvalidCsiByte(chunk'[1]))
          => /\ Len(chunk') = 1 => aborted' = "none" /\ state' = "Csi"
             /\ (Len(chunk') = 2 /\ is_csi_terminator(chunk'[2]))
                   => /\ aborted' = "none"
                      /\ state' = "Empty"
                      /\ partial'.data = <<>>
                      /\ csi' = NoCsi]_vars

----------------------------------------------------------------------------
(* C11: a CSI sequence with an invalid byte, at its terminator *)

HasDigit(s) == \E i \in 1..Len(s) : IsDigit(s[i])

IsCursorOrClear(ev) ==
    ev.type \in {"SetCursorPos", "ClearForwards", "ClearBackwards", "ClearAll"}

\* C11: when the terminator of a CSI sequence that held an invalid byte (and
\* digits) has arrived, the parser is Idle and the call has emitted no
\* SetCursorPos and no clear event: the sequence is discarded as a unit.
C11_MalformedDiscarded ==
    (Delivered /\ HasDigit(script))
        => /\ state = "Empty"
           /\ \A i \in 1..Len(output) : ~IsCursorOrClear(output[i])

----------------------------------------------------------------------------
(* C12: terminators without a command *)

\* A-G, K, S, T, f, m
IsUnhandledTerminator(b) == is_csi_terminator(b) /\ b \notin {72, 74, 115, 117}

\* C12: a CSI sequence ending in a terminator other than H, J, s, u emits
\* exactly one Ansi (unhandled escape) event carrying the bytes of the
\* sequence (with or without the introducer ESC [), does not abort, and
\* leaves the parser Idle.
C12_UnhandledCarriesBytes ==
    (pos = Len(script) /\ chunk # <<>> /\ IsUnhandledTerminator(LastOf(script)))
        => /\ aborted = "none"
           /\ state = "Empty"
           /\ Len(output) = 1
           /\ output[1].type = "Ansi"
           /\ output[1].data \in {script, SubSeq(script, 3, Len(script))}

----------------------------------------------------------------------------
(* C13: the screen buffer *)

\* C13: after any sequence of reads the screen buffer holds no ESC byte.
C13_NoEscInBuffer == \A i \in 1..Len(buffer) : buffer[i] # ESC

----------------------------------------------------------------------------
(* C14: the range of a clear *)

ClearOutOfRange ==
    {"drain: range start out of bounds", "drain: range end out of bounds"}

\* C14: whenever ClearForwards or ClearBackwards is applied the cursor's
\* linear offset is at most the buffer length: no read fails on the range of
\* the removal.
C14_ClearInRange == read_aborted \notin ClearOutOfRange

----------------------------------------------------------------------------
(* C15..C20: the effect of one event on the terminal *)

\* usize has Word values
Word == UsizeMax + 1

\* this step is a read whose only segment is an event of the given type
Applied(type) ==
    calls' = calls + 1 /\ Len(output') = 1 /\ output'[1].type = type

\* this step is a read that returned
Returned == aborted' = "none" /\ read_aborted' = "none"

\* the rule of advance for one byte, in usize arithmetic
AdvanceByte(c, b) ==
    IF b = 10 THEN [x |-> 0, y |-> (c.y + 1) % Word]
    ELSE IF b = 13 THEN [x |-> 0, y |-> c.y]
    ELSE IF b = 9 THEN [x |-> (c.x + 4) % Word, y |-> c.y]
    ELSE [x |-> (c.x + 1) % Word, y |-> c.y]

RECURSIVE AdvanceFold(_, _)
AdvanceFold(c, bytes) ==
    IF bytes = <<>> THEN c
    ELSE AdvanceFold(AdvanceByte(c, bytes[1]), SubSeq(bytes, 2, Len(bytes)))

\* the lines of a buffer, without their newline bytes
RECURSIVE LinesOf(_)
LinesOf(buf) ==
    IF \A i \in 1..Len(buf) : buf[i] # 10 THEN <<buf>>
    ELSE LET n == CHOOSE i \in 1..Len(buf) :
                      buf[i] = 10 /\ \A j \in 1..(i - 1) : buf[j] # 10
         IN <<SubSeq(buf, 1, n - 1)>> \o LinesOf(SubSeq(buf, n + 1, Len(buf)))

RECURSIVE SumLen(_, _)
SumLen(lines, n) ==
    IF n = 0 THEN 0 ELSE Len(lines[n]) + SumLen(lines, n - 1)

\* the buffer position of a cursor: the lengths of the lines strictly before
\* its row, plus its column
BufferPosition(c, buf) ==
    LET lines == LinesOf(buf)
        rows == IF c.y < Len(lines) THEN c.y ELSE Len(lines)
    IN SumLen(lines, rows) + c.x

\* the first p bytes of a buffer, and the bytes after them
FirstBytes(buf, p) == SubSeq(buf, 1, IF p < Len(buf) THEN p ELSE Len(buf))
AfterFirstBytes(buf, p) ==
    SubSeq(buf, (IF p < Len(buf) THEN p ELSE Len(buf)) + 1, Len(buf))

\* "line1\nline2\nline3"
Line123 ==
    <<108, 105, 110, 101, 49, 10, 108, 105, 110, 101, 50, 10,
      108, 105, 110, 101, 51>>

\* C15: applying Text(bytes) appends exactly those bytes to the end of the
\* buffer and leaves the cursor at the per-byte fold of the advance rule
\* (newline: x = 0, y + 1; carriage return: x = 0; tab: x + 4; other: x + 1);
\* the saved cursor is unchanged.
C15_TextAppends ==
    [][Applied("Text")
          => /\ Returned
             /\ buffer' = buffer \o output'[1].data
             /\ cursor' = AdvanceFold(cursor, output'[1].data)
             /\ saved_cursor' = saved_cursor]_vars

\* "a\t\rb\nc" applied with the cursor at (1, 0) and a cursor saved
C15_Witness ==
    /\ chunk = <<97, 9, 13, 98, 10, 99>>
    /\ output = <<Text(chunk)>>
    /\ buffer = <<97>> \o chunk
    /\ cursor = [x |-> 1, y |-> 1]
    /\ saved_cursor = SomeCursor([x |-> 1, y |-> 0])

\* C16: applying SetCursorPos{row, col} sets cursor.y = row - 1 and
\* cursor.x = col - 1 and changes neither the buffer nor the saved cursor.
C16_SetCursorPosFrame ==
    [][Applied("SetCursorPos")
          => /\ Returned
             /\ cursor'.y = output'[1].y - 1
             /\ cursor'.x = output'[1].x - 1
             /\ buffer' = buffer
             /\ saved_cursor' = saved_cursor]_vars

\* C17: ClearForwards leaves the buffer equal to its first p bytes, p the
\* buffer position of the cursor (the lengths of the lines strictly before
\* the cursor's row, newlines not counted, plus the column), and leaves the
\* cursor unchanged; "line1\nline2\nline3" with the cursor at row 1, col 2
\* becomes its first 7 bytes.
C17_ClearForwardsPrefix ==
    [][Applied("ClearForwards")
          => /\ Returned
             /\ buffer' = FirstBytes(buffer, BufferPosition(cursor, buffer))
             /\ cursor' = cursor
             /\ (buffer = Line123 /\ cursor = [x |-> 2, y |-> 1])
                   => buffer' = SubSeq(Line123, 1, 7)]_vars

\* C18: ClearBackwards removes exactly the first p bytes of the buffer, p the
\* buffer position of the cursor, and keeps the remaining bytes in order;
\* cursor and saved cursor are unchanged.
C18_ClearBackwardsSuffix ==
    [][Applied("ClearBackwards")
          => /\ Returned
             /\ buffer' = AfterFirstBytes(buffer, BufferPosition(cursor, buffer))
             /\ cursor' = cursor
             /\ saved_cursor' = saved_cursor]_vars

\* C19: after ClearAll, from any state, the buffer is empty and the cursor is
\* (0,0); the saved-cursor slot is not modified.
C19_ClearAllResets ==
    [][Applied("ClearAll")
          => /\ Returned
             /\ buffer' = <<>>
             /\ cursor' = [x |-> 0, y |-> 0]
             /\ saved_cursor' = saved_cursor]_vars

\* ESC[2J applied to a terminal with text and a saved cursor off the origin
C19_Witness ==
    /\ output = <<ClearAll>>
    /\ calls = 3
    /\ buffer = <<>>
    /\ cursor = [x |-> 0, y |-> 0]
    /\ saved_cursor = SomeCursor([x |-> 5, y |-> 2])

\* the segments hold neither SaveCursorPos nor RestoreCursorPos
NoSaveRestore(segments) ==
    \A i \in 1..Len(segments) :
        segments[i].type \notin {"SaveCursorPos", "RestoreCursorPos"}

\* C20: save/restore round trip.  SaveCursorPos stores the cursor and changes
\* neither cursor nor buffer; events other than save and restore leave the
\* stored cursor alone; RestoreCursorPos puts the cursor at the stored (x,y)
\* and leaves the buffer alone; and a read of SaveCursorPos, Text,
\* RestoreCursorPos leaves the cursor where it was and appends the text.
C20_SaveRestoreRoundTrip ==
    [][/\ Applied("SaveCursorPos")
           => /\ Returned
              /\ saved_cursor' = SomeCursor(cursor)
              /\ cursor' = cursor
              /\ buffer' = buffer
       /\ (calls' = calls + 1 /\ NoSaveRestore(output'))
           => saved_cursor' = saved_cursor
       /\ (Applied("RestoreCursorPos") /\ saved_cursor.some)
           => /\ Returned
              /\ cursor' = [x |-> saved_cursor.x, y |-> saved_cursor.y]
              /\ buffer' = buffer
       /\ (calls' = calls + 1 /\ Len(output') = 3
              /\ output'[1] = SaveCursorPos /\ output'[2].type = "Text"
              /\ output'[3] = RestoreCursorPos)
           => /\ Returned
              /\ cursor' = cursor
              /\ buffer' = buffer \o output'[2].data]_vars

\* with the cursor at (1,0): save, "a\n", restore; the cursor is at (1,0)
C20_Witness ==
    /\ output = <<SaveCursorPos, Text(<<97, 10>>), RestoreCursorPos>>
    /\ cursor = [x |-> 1, y |-> 0]
    /\ buffer = <<97, 97, 10>>

----------------------------------------------------------------------------
(* C21: restore with an empty slot *)

\* C21: RestoreCursorPos with an empty saved-cursor slot is a no-op: the read
\* returns and cursor, buffer and slot are unchanged; a restore leaves the
\* slot empty, and a restore right after a restore changes nothing.
C21_RestoreEmptyIsNoOp ==
    [][Applied("RestoreCursorPos")
          => /\ Returned
             /\ ~saved_cursor'.some
             /\ (~saved_cursor.some \/ output = <<RestoreCursorPos>>)
                   => /\ cursor' = cursor
                      /\ buffer' = buffer
                      /\ saved_cursor' = saved_cursor]_vars

\* "a", then ESC[u twice: the cursor is still after the "a"
C21_Witness ==
    /\ output = <<RestoreCursorPos>>
    /\ calls = 3
    /\ cursor = [x |-> 1, y |-> 0]
    /\ buffer = <<97>>
    /\ saved_cursor = NoCursor

----------------------------------------------------------------------------
(* C22: what Terminal::read returns *)

\* C22: Terminal::read returns an error exactly when the descriptor read
\* failed with an error other than would-block; on would-block it returns
\* success and buffer, cursor, saved cursor and parser state are unchanged.
C22_ReadErrors ==
    /\ [](read_result = "Err" <=> fd_read \in OtherErrnos)
    /\ [][fd_read' = "EAGAIN"
            => /\ read_result' = "Ok"
               /\ UNCHANGED <<buffer, cursor, saved_cursor, state, partial,
                              csi>>]_vars

\* a would-block read after text was read and a cursor saved
C22_Witness ==
    /\ fd_read = "EAGAIN"
    /\ read_result = "Ok"
    /\ buffer = <<97>>
    /\ saved_cursor = SomeCursor([x |-> 1, y |-> 0])

----------------------------------------------------------------------------
(* C23: the write loop *)

\* C23: write retries on would-block; it returns success only when every byte
\* of its argument has been accepted by the descriptor, in order and without
\* duplication; it returns an error on the first failure other than
\* would-block; and, the descriptor accepting at least one byte again and
\* again while bytes remain, it terminates.
C23_WriteLoop ==
    /\ [](write_result = "Ok" => accepted = wbytes)
    /\ [](write_result # "none" => accepted \o remaining = wbytes)
    /\ [](write_result = "Err" <=> fd_write \in OtherErrnos)
    /\ [][fd_write' = "EAGAIN"
            => /\ write_result' = "running"
               /\ UNCHANGED <<remaining, accepted>>]_vars
    /\ (write_result = "running") ~> (write_result \in {"Ok", "Err"})

\* "ab\r" written, in more than one piece
C23_Witness ==
    /\ write_result = "Ok"
    /\ wbytes = <<97, 98, 13>>
    /\ accepted = wbytes
    /\ fd_write = "written"

----------------------------------------------------------------------------
(* C24: the address assertions of push_byte *)

PushByteAssertions ==
    {"push_byte: byte below slice", "push_byte: byte not contiguous"}

\* C24: for every sequence of chunks the address assertions of push_byte
\* hold: a byte appended to a non-empty borrowed span lies directly after it
\* (and no byte lies below the span it is appended to).
C24_PushByteContiguous == aborted \notin PushByteAssertions

----------------------------------------------------------------------------
(* C25: the spans kept across calls *)

\* C25: when parse returns in Esc or Csi state, every non-empty span the
\* parser retains (the pending span and the CSI digit span) is owned.
C25_RetainedSpansOwned ==
    (aborted = "none" /\ state \in {"Esc", "Csi"})
        => /\ partial.data # <<>> => partial.owned
           /\ csi.arg.data # <<>> => csi.arg.owned

----------------------------------------------------------------------------
(* C26: the pending span when a CSI sequence finishes *)

\* C26: when a CSI sequence finishes the parser is Idle and the pending span
\* is empty: a call that brings only the terminator returns no Text event,
\* there being no byte after the terminator.
C26_NothingPendingAfterCsi ==
    [][(calls' = calls + 1 /\ state = "Csi" /\ Len(chunk') = 1
            /\ is_csi_terminator(chunk'[1]) /\ aborted' = "none")
          => /\ state' = "Empty"
             /\ \A i \in 1..Len(output') : output'[i].type # "Text"]_vars

----------------------------------------------------------------------------
(* C27: one byte in Esc state *)

\* C27: in Esc state the byte '[' moves the parser to Csi with no pending
\* digits and no arguments; every other byte, a CSI terminator included, is
\* appended to the pending span, emits no event and leaves the parser in Esc.
C27_EscStep ==
    [][(calls' = calls + 1 /\ state = "Esc" /\ Len(chunk') = 1)
          => /\ aborted' = "none"
             /\ output' = <<>>
             /\ IF chunk'[1] = CSI
                THEN /\ state' = "Csi"
                     /\ csi'.state = "Argument"
                     /\ csi'.arg.data = <<>>
                     /\ csi'.args = <<>>
                ELSE /\ state' = "Esc"
                     /\ partial'.data = partial.data \o chunk']_vars

----------------------------------------------------------------------------
(* C28: the argument list *)

\* how many ';' a byte string holds
RECURSIVE CountSemi(_)
CountSemi(bytes) ==
    IF bytes = <<>> THEN 0
    ELSE (IF bytes[1] = SEMI THEN 1 ELSE 0)
            + CountSemi(SubSeq(bytes, 2, Len(bytes)))

\* C28: the argument list has one entry per argument position in encounter
\* order, an omitted argument being recorded (as unset) and not dropped:
\* while a CSI sequence is being read the list has as many entries as ';'
\* bytes have been read.
C28_OneEntryPerPosition ==
    (aborted = "none" /\ state = "Csi")
        => Len(csi.args) = CountSemi(SubSeq(script, 1, pos))

\* C29: no sequence of parse calls pushes a byte into a CSI parser that is
\* already Finished: the fatal check at the top of CsiParser::push is never
\* hit, and whenever parse has returned in the Csi state the CSI parser is in
\* the Argument state, so the next byte step starts from Argument
C29_NeverPushIntoFinished ==
    /\ aborted # "attempted to push byte into finished CSI sequence"
    /\ (aborted = "none" /\ state = "Csi") => csi.state = "Argument"
    /\ (aborted = "none" /\ state # "Csi") => csi = NoCsi

\* a second CSI sequence is being read by the parser that finished an
\* earlier one
C29_Witness ==
    /\ aborted = "none"
    /\ state = "Csi"
    /\ csi.state = "Argument"
    /\ Len(csi.arg.data) > 0
    /\ \E i \in 1..pos : script[i] \in {72, 74}

----------------------------------------------------------------------------
(* C30: chunking transparency *)

\* C30: for every well-formed stream with valid arguments and every
\* partition of it into chunks, no call aborts, and once the stream is
\* delivered the events of all calls, with adjacent Text events joined, are
\* the events of one parse call on the whole stream: the same non-Text events
\* in the same order, and the same text between them.
C30_ChunkingTransparent ==
    LET whole == OneShot(script)
    IN whole.aborted # "invalid argument for J command" =>
           /\ whole.aborted = "none"
           /\ aborted = "none"
           /\ pos = Len(script) => returned = MergeText(whole.output)

\* ESC[1;12H a b in three chunks, the text run cut between a and b
C30_Witness ==
    /\ script = CsiSeq(<<49, SEMI, 49, 50>>, 72) \o <<97, 98>>
    /\ calls = 3 /\ pos = Len(script)
    /\ chunk = <<98>>
    /\ output = <<Text(<<98>>)>>
    /\ returned = <<SetCursorPos(12, 1), Text(<<97, 98>>)>>

----------------------------------------------------------------------------
(* C31: the conversion of a digit run *)

\* C31: the conversion of the digits accumulated for a CSI argument never
\* fails: no parse call aborts on the expectation of accumulate, whatever
\* the length of the digit run and however large its value.
C31_ConversionNeverFails ==
    aborted # "expect: to have already validated the input"

----------------------------------------------------------------------------
(* C32: the coordinates of SetCursorPos *)

\* C32: every SetCursorPos the terminal applies has row >= 1 and col >= 1,
\* and no read aborts on the subtraction row - 1 or col - 1.
C32_NoCursorUnderflow ==
    [][calls' = calls + 1 =>
          /\ \A i \in 1..Len(output') :
                 output'[i].type = "SetCursorPos"
                     => output'[i].x >= 1 /\ output'[i].y >= 1
          /\ read_aborted' # "attempt to subtract with overflow"]_vars

====
